---- MODULE Spec2Model ----
(***************************************************************************)
(* A model of the daemon Session (packages/cli/src/DaemonClient.ts) and of *)
(* the filesystem event layer (packages/imperative/src/events/src).        *)
(*                                                                         *)
(* Part 1 models DaemonClient: one Session per accepted connection, the    *)
(* listening server and the process-wide stdin the Sessions push into.     *)
(* A chunk is a sequence of bytes.  A byte is a string; the JSON control   *)
(* message is "{", one byte per field, "}", and a two-byte UTF8 character  *)
(* is the byte pair "C3","A9" (one character, "E9", once decoded).         *)
(***************************************************************************)
EXTENDS Integers, Sequences, FiniteSets, TLC

\* ------------------------------------------------------------------ bounds
\* The greatest declared stdin length a modelled client sends.
MaxLen == 3

\* ------------------------------------------------------- daemon: constants
Sessions == {"s1", "s2"}

\* DaemonClient.CTRL_C_CHAR
CTRL_C_CHAR == "x03"

\* DaemonRequest.EOW_DELIMITER, the reserved end-of-word delimiter (one byte).
EOW_DELIMITER == "FF"

\* The owner the daemon was constructed with (mOwner).
mOwner == "owner"

Undefined == "undefined"

EOF == "EOF"

Min(S) == CHOOSE x \in S : \A y \in S : x <= y

\* ----------------------------------------------- the client's wire format
\* The payload of length n: n distinct bytes, so that a lost, repeated or
\* reordered byte shows.
PayloadBytes == <<"p1", "p2", "p3", "p4", "p5">>

Payload(n) == SubSeq(PayloadBytes, 1, n)

UserFields == {"u:num", "u:empty", "u:junk", "u:garbled", "u:other", "u:owner"}

\* The requests a modelled client sends.  user: the user field (Undefined:
\* none); stdin: the stdin field (Undefined: none); argv: whether argv is
\* present; wide: whether an argv string holds a two-byte character; delim:
\* whether stdinLength is declared and the delimiter follows the JSON; len:
\* the declared stdinLength; sent: the number of payload bytes that follow
\* (one more or one fewer than declared in two requests); again: whether
\* the client sends the JSON control message a second time on the connection.
Requests ==
    { [user |-> u, stdin |-> Undefined, argv |-> TRUE, wide |-> FALSE, delim |-> FALSE, len |-> 0, sent |-> 0, again |-> FALSE] :
        u \in UserFields \cup {Undefined} }
    \cup
    { [user |-> u, stdin |-> CTRL_C_CHAR, argv |-> FALSE, wide |-> FALSE, delim |-> FALSE, len |-> 0, sent |-> 0, again |-> FALSE] :
        u \in {Undefined, "u:other", "u:owner"} }
    \cup
    { [user |-> "u:owner", stdin |-> "y", argv |-> FALSE, wide |-> FALSE, delim |-> FALSE, len |-> 0, sent |-> 0, again |-> FALSE] }
    \cup
    { [user |-> "u:other", stdin |-> Undefined, argv |-> TRUE, wide |-> FALSE, delim |-> TRUE, len |-> 1, sent |-> 1, again |-> FALSE] }
    \cup
    { [user |-> "u:owner", stdin |-> Undefined, argv |-> TRUE, wide |-> w, delim |-> TRUE, len |-> n, sent |-> n, again |-> FALSE] :
        w \in BOOLEAN, n \in 0..MaxLen }
    \cup
    { [user |-> "u:owner", stdin |-> Undefined, argv |-> TRUE, wide |-> FALSE, delim |-> TRUE, len |-> n[1], sent |-> n[2], again |-> FALSE] :
        n \in {<<2, 1>>, <<1, 2>>} }
    \cup
    { [user |-> "u:owner", stdin |-> Undefined, argv |-> TRUE, wide |-> FALSE, delim |-> FALSE, len |-> 0, sent |-> 0, again |-> TRUE] }

\* The second client sends a request of the owner: a plain command, the
\* interrupt, or a command with a payload of two bytes.
RequestsOf(s) ==
    IF s = "s1" THEN Requests
    ELSE { r \in Requests : /\ r.user = "u:owner"
                            /\ ~r.wide
                            /\ r.stdin # "y"
                            /\ ~r.again
                            /\ r.delim => (r.len = 2 /\ r.sent = 2) }

UserBytes(r) == IF r.user = Undefined THEN <<>> ELSE <<r.user>>

StdinBytes(r) == IF r.stdin = Undefined THEN <<>> ELSE <<r.stdin>>

\* The stdinLength field holding n is the byte LenFields[n + 1].
LenFields == <<"len:0", "len:1", "len:2", "len:3", "len:4", "len:5", "len:6">>

LenBytes(r) == IF r.delim THEN <<LenFields[r.len + 1]>> ELSE <<>>

ArgvBytes(r) == IF ~r.argv THEN <<>> ELSE IF r.wide THEN <<"argv", "C3", "A9">> ELSE <<"argv">>

\* The JSON control message of a request, as bytes.
JsonBytes(r) == <<"{">> \o ArgvBytes(r) \o UserBytes(r) \o StdinBytes(r) \o LenBytes(r) \o <<"}">>

\* The bytes of a request on the wire: the JSON object, then the delimiter
\* and the raw payload when stdinLength is declared, then the JSON object
\* again when the client repeats it.
Encode(r) ==
    JsonBytes(r) \o (IF r.delim THEN <<EOW_DELIMITER>> \o Payload(r.sent) ELSE <<>>)
                 \o (IF r.again THEN JsonBytes(r) ELSE <<>>)

\* ------------------------------------------------- DaemonClient.data: parts
\* data.toString(): UTF8 decoding.  The byte pair C3 A9 is one character; a
\* lead or continuation byte on its own decodes to U+FFFD.
RECURSIVE Utf8ToString(_)
Utf8ToString(b) ==
    IF b = <<>> THEN <<>>
    ELSE IF Head(b) = "C3" /\ Len(b) >= 2 /\ b[2] = "A9"
         THEN <<"E9">> \o Utf8ToString(SubSeq(b, 3, Len(b)))
    ELSE IF Head(b) \in {"C3", "A9"}
         THEN <<"FFFD">> \o Utf8ToString(Tail(b))
    ELSE <<Head(b)>> \o Utf8ToString(Tail(b))

\* stringData.indexOf("}" + EOW_DELIMITER): the 0-based index of the first
\* "}" immediately followed by the delimiter, -1 when there is none.
IndexOfJsonEnd(chars) ==
    LET hits == { i \in 1..(Len(chars) - 1) : chars[i] = "}" /\ chars[i + 1] = EOW_DELIMITER }
    IN  IF hits = {} THEN -1 ELSE Min(hits) - 1

\* string.slice(0, end) and buffer.slice(start), with JavaScript's 0-based
\* indices.
StringSliceTo(chars, end) == SubSeq(chars, 1, end)

BufferSliceFrom(bytes, start) == SubSeq(bytes, start + 1, Len(bytes))

IsLenField(c) == \E n \in 1..Len(LenFields) : LenFields[n] = c

LenValue(c) == (CHOOSE n \in 1..Len(LenFields) : LenFields[n] = c) - 1

IsJsonInner(c) ==
    \/ IsLenField(c)
    \/ c \in UserFields \cup {CTRL_C_CHAR, "y", "argv", "E9"}

\* JSON.parse of the control message: ok is FALSE where JSON.parse throws.
\* A field the object lacks reads as undefined: has<Field> is FALSE.
JsonParse(chars) ==
    LET n == Len(chars)
        wellFormed == /\ n >= 2
                      /\ chars[1] = "{"
                      /\ chars[n] = "}"
                      /\ \A i \in 2..(n - 1) : IsJsonInner(chars[i])
        inner == IF wellFormed THEN { chars[i] : i \in 2..(n - 1) } ELSE {}
        users == inner \cap UserFields
        stdins == inner \cap {CTRL_C_CHAR, "y"}
        lens == { c \in inner : IsLenField(c) }
    IN  [ok |-> wellFormed,
         user |-> IF users = {} THEN Undefined ELSE CHOOSE u \in users : TRUE,
         stdin |-> IF stdins = {} THEN Undefined ELSE CHOOSE x \in stdins : TRUE,
         hasLength |-> lens # {},
         stdinLength |-> IF lens = {} THEN 0 ELSE LenValue(CHOOSE c \in lens : TRUE),
         hasArgv |-> "argv" \in inner,
         argv |-> IF wellFormed THEN SelectSeq(chars, LAMBDA c : c \in {"argv", "E9"}) ELSE <<>>]

NoJson == JsonParse(<<>>)

\* Buffer.from(jsonData.user, 'base64').toString() inside the try block:
\* a user that is no string makes Buffer.from throw, which leaves requestUser
\* undefined; characters that are no base64 are skipped.
RequestUser(user) ==
    CASE user = Undefined -> Undefined
      [] user = "u:num" -> Undefined
      [] user = "u:empty" -> ""
      [] user = "u:junk" -> ""
      [] user = "u:garbled" -> "FFFD"
      [] user = "u:other" -> "mallory"
      [] user = "u:owner" -> "owner"

\* A JavaScript number that may be NaN (an undefined stdinLength minus a
\* byte length): every comparison with NaN is false.
Num(v) == [nan |-> FALSE, v |-> v]

NaN == [nan |-> TRUE, v |-> 0]

Minus(x, n) == IF x.nan THEN NaN ELSE Num(x.v - n)

Positive(x) == ~x.nan /\ x.v > 0

NotPositive(x) == ~x.nan /\ x.v <= 0

\* ---------------------------------------------------------- daemon: state
VARIABLES
    alive,               \* the daemon process runs
    listening,           \* mServer accepts connections
    stdin,               \* process.stdin: [buf, isTTY, saved (_readableStateOld)]
    conn,                \* per Session: "idle" (not accepted yet), "open", "ended" (mClient.end() called),
                         \*   "dead" (open when the process exited)
    wire,                \* per Session: the bytes the client has sent that were not read yet
    pendingStdinLength,  \* per Session: DaemonClient.pendingStdinLength
    stdinListener,       \* per Session: the "data" listener writeToStdin adds is registered
    jsonData,            \* per Session: jsonData of the call of data() that awaits writeToStdin
    effects,             \* per Session: what the Session did, in order: <<kind, argument>>
    dispatched,          \* per Session: the calls of Imperative.parse: [argv, input]
    req,                 \* per Session: the request its client sent (history)
    firstRead            \* per Session: the number of bytes of the first chunk, 0 before it (history)

daemonVars == <<alive, listening, stdin, conn, wire, pendingStdinLength, stdinListener, jsonData,
                effects, dispatched, req, firstRead>>

NoRequest == [user |-> Undefined, stdin |-> Undefined, argv |-> FALSE, wide |-> FALSE,
              delim |-> FALSE, len |-> 0, sent |-> 0, again |-> FALSE]

DaemonInit ==
    /\ alive = TRUE
    /\ listening = TRUE
    /\ stdin = [buf |-> <<>>, isTTY |-> Undefined, saved |-> FALSE]
    /\ conn = [s \in Sessions |-> "idle"]
    /\ wire = [s \in Sessions |-> <<>>]
    /\ pendingStdinLength = [s \in Sessions |-> Num(0)]
    /\ stdinListener = [s \in Sessions |-> FALSE]
    /\ jsonData = [s \in Sessions |-> NoJson]
    /\ effects = [s \in Sessions |-> <<>>]
    /\ dispatched = [s \in Sessions |-> <<>>]
    /\ req = [s \in Sessions |-> NoRequest]
    /\ firstRead = [s \in Sessions |-> 0]

\* ------------------------------------------------ DaemonClient: the handlers
\* The handlers below take and return the part of the state one call of
\* data() can change: w = [stdin, listening, conn, pending, listener, json,
\* effects, dispatched].
World(s) ==
    [stdin |-> stdin, listening |-> listening, conn |-> conn[s],
     pending |-> pendingStdinLength[s], listener |-> stdinListener[s], json |-> jsonData[s],
     effects |-> effects[s], dispatched |-> dispatched[s]]

\* process.stdin.push(data)
StdinPush(w, data) ==
    [w EXCEPT !.stdin.buf = @ \o data,
              !.effects = @ \o [i \in 1..Len(data) |-> <<"push", data[i]>>]]

\* process.stdin.push(null)
StdinPushNull(w) ==
    [w EXCEPT !.stdin.buf = Append(@, EOF), !.effects = Append(@, <<"push", EOF>>)]

\* writeToStdin, lines 95-109: isTTY is set to false; the first use saves the
\* readable state, a later use drains stdin and resets it to the saved state.
StdinReset(w) ==
    [w EXCEPT !.stdin = [buf |-> IF @.saved THEN <<>> ELSE @.buf, isTTY |-> "false", saved |-> TRUE]]

\* mClient.write(text); mClient.end()
WriteAndEnd(w, text) ==
    [w EXCEPT !.effects = @ \o << <<"write", text>>, <<"end", "">> >>, !.conn = "ended"]

\* A shutdown that leaves the server listening.
ShutdownNoServerClose(w) ==
    WriteAndEnd(w, "Terminating server")

\* shutdown(): the termination notice, the end of the connection, the close
\* of the server.
Shutdown(w) ==
    [WriteAndEnd(w, "Terminating server") EXCEPT !.effects = Append(@, <<"server.close", "">>),
                                                !.listening = FALSE]

\* The end of data(), lines 195-197: jsonData.argv.join throws for a request
\* without argv; Imperative.parse reads the stdin as it is now.
Dispatch(w) ==
    IF ~w.json.hasArgv
    THEN [w EXCEPT !.effects = Append(@, <<"throw", "TypeError">>)]
    ELSE [w EXCEPT !.effects = Append(@, <<"parse", "">>),
                   !.dispatched = Append(@, [argv |-> w.json.argv, input |-> w.stdin.buf])]

\* writeToStdin up to its await: the first slice is pushed and the counter
\* set; with bytes still pending the listener is added and data() is
\* suspended, otherwise the end of input is pushed and data() goes on.
WriteToStdin(w, data, expectedLength) ==
    LET w1 == StdinPush(StdinReset(w), data)
        w2 == [w1 EXCEPT !.pending = Minus(expectedLength, Len(data))]
    IN  IF Positive(w2.pending)
        THEN [w2 EXCEPT !.listener = TRUE]
        ELSE Dispatch(StdinPushNull(w2))

\* The listener writeToStdin adds, lines 121-129, and what its resolve()
\* resumes: the push of the end of input and the rest of data().
StdinListener(w, data) ==
    LET w1 == StdinPush(w, data)
        w2 == [w1 EXCEPT !.pending = Minus(@, Len(data))]
    IN  IF NotPositive(w2.pending)
        THEN Dispatch(StdinPushNull([w2 EXCEPT !.listener = FALSE]))
        ELSE w2

\* The rejection of a request without a valid user, lines 160-169.
RejectNoUser(w) ==
    WriteAndEnd(w, "exitCode:1")

\* A rejection that forgets to end the connection.
RejectOtherUserNoEnd(w) ==
    [w EXCEPT !.effects = Append(@, <<"write", "exitCode:1">>)]

\* The rejection of a request of another user, lines 170-179.
RejectOtherUser(w) ==
    WriteAndEnd(w, "exitCode:1")

\* A prompt reply that is answered with exit code 1.
PromptReplyRejected(w) ==
    WriteAndEnd(w, "exitCode:1")

\* A stdin field that is not the interrupt, lines 183-185: a prompt reply,
\* data() returns.
PromptReply(w) == w

\* data(), from line 145 on (the counter is not positive).
DataRequest(w, data) ==
    LET stringData == Utf8ToString(data)
        jsonEndIdx == IndexOfJsonEnd(stringData)
        json == JsonParse(IF jsonEndIdx # -1 THEN StringSliceTo(stringData, jsonEndIdx + 1) ELSE stringData)
        hasStdinData == jsonEndIdx # -1
        stdinData == IF hasStdinData THEN BufferSliceFrom(data, jsonEndIdx + 2) ELSE <<>>
        requestUser == RequestUser(json.user)
        w1 == [w EXCEPT !.json = json]
    IN  IF ~json.ok
        THEN [w EXCEPT !.effects = Append(@, <<"throw", "SyntaxError">>)]
        ELSE IF requestUser = Undefined \/ requestUser = ""
        THEN RejectNoUser(w)
        ELSE IF requestUser # mOwner
        THEN RejectOtherUser(w)
        ELSE IF json.stdin # Undefined
        THEN IF json.stdin # CTRL_C_CHAR
             THEN PromptReply(w)
             ELSE Shutdown(w)
        ELSE IF hasStdinData
        THEN WriteToStdin(w1, stdinData, IF json.hasLength THEN Num(json.stdinLength) ELSE NaN)
        ELSE Dispatch(w1)

\* A data() that goes on to parse the chunk while the counter is positive.
OnDataParseAlways(w, data) ==
    LET w1 == DataRequest(w, data)
    IN  IF w.listener THEN StdinListener(w1, data) ELSE w1

\* One "data" event of the socket: data() was registered first and returns at
\* once while the counter is positive; the listener of writeToStdin, when
\* registered before the event, runs after it.
OnData(w, data) ==
    LET w1 == IF Positive(w.pending) THEN w ELSE DataRequest(w, data)
    IN  IF w.listener THEN StdinListener(w1, data) ELSE w1

\* data() is an async function nothing awaits or catches: what it throws
\* becomes an unhandled rejection.  Whether the call of data() that took w0
\* to w1 threw.
Rejected(w0, w1) ==
    \E i \in (Len(w0.effects) + 1)..Len(w1.effects) : w1.effects[i][1] = "throw"

\* What an unhandled rejection does is the runtime's choice: it warns and
\* the process runs on, or it ends the process (the default from Node.js 15).
AliveAfter(w0, w1) == IF Rejected(w0, w1) THEN BOOLEAN ELSE {TRUE}

\* ----------------------------------------------------- daemon: properties
\* The first chunk of Session s held at least n bytes.
FirstReadHolds(s, n) == firstRead[s] >= n

\* The bytes Session s pushed to stdin, without the end of input.
PushedBytes(s) ==
    LET pushes == SelectSeq(effects[s], LAMBDA e : e[1] = "push" /\ e[2] # EOF)
    IN  [i \in 1..Len(pushes) |-> pushes[i][2]]

Did(s, kind) == \E i \in 1..Len(effects[s]) : effects[s][i][1] = kind

\* Session s got a command of the owner with a declared stdin length, the
\* JSON and the delimiter in its first chunk.
StdinRequestRead(s) ==
    /\ req[s].delim
    /\ req[s].argv
    /\ RequestUser(req[s].user) = mOwner
    /\ req[s].sent = req[s].len
    /\ FirstReadHolds(s, Len(JsonBytes(req[s])) + 1)

\* C1: for every declared length L >= 0 and every split of the L payload
\* bytes over the first and the later reads, the bytes the Session has pushed
\* to stdin when it dispatches are the L payload bytes, in order.
PayloadDeliveredExactly ==
    \A s \in Sessions :
        (StdinRequestRead(s) /\ Did(s, "parse")) => PushedBytes(s) = Payload(req[s].len)

\* The same for the requests whose JSON holds one-byte characters only.
PayloadDeliveredAscii ==
    \A s \in Sessions :
        (StdinRequestRead(s) /\ ~req[s].wide)
            => /\ Did(s, "parse") => PushedBytes(s) = Payload(req[s].len)
               /\ wire[s] = <<>> => Len(dispatched[s]) = 1

\* The user of the request is absent, empty, undecodable or not the owner.
BadUser(r) == RequestUser(r.user) # mOwner

\* C2: a Request whose user is absent, empty, undecodable or not the owner
\* is answered with exit code 1, its connection is ended and it is never
\* dispatched.
BadUserRejected ==
    \A s \in Sessions :
        (BadUser(req[s]) /\ FirstReadHolds(s, Len(JsonBytes(req[s]))))
            => /\ Len(effects[s]) >= 2
               /\ effects[s][1] = <<"write", "exitCode:1">>
               /\ effects[s][2] = <<"end", "">>
               /\ conn[s] = "ended"
               /\ dispatched[s] = <<>>
               /\ ~Did(s, "parse")

BadUserRejectedWitness ==
    \E s \in Sessions :
        /\ req[s].user = "u:garbled"
        /\ conn[s] = "ended"
        /\ wire[s] = <<>>

\* Session s got the interrupt of the owner, whole, in its first chunk.
InterruptRead(s) ==
    /\ req[s].stdin = CTRL_C_CHAR
    /\ RequestUser(req[s].user) = mOwner
    /\ FirstReadHolds(s, Len(JsonBytes(req[s])))

\* C3: an interrupt Request (of the owner: every Request is authenticated
\* first) writes the termination notice, then ends its connection, then
\* closes the server; from then on the server stays closed and no connection
\* is accepted.
InterruptShutsDown ==
    /\ [](\A s \in Sessions :
            InterruptRead(s)
                => /\ effects[s] = << <<"write", "Terminating server">>, <<"end", "">>,
                                      <<"server.close", "">> >>
                   /\ conn[s] = "ended"
                   /\ ~listening)
    /\ [][~listening => /\ ~listening'
                        /\ \A s \in Sessions : conn[s] = "idle" => conn'[s] = "idle"]_daemonVars

InterruptShutsDownWitness ==
    \E s, t \in Sessions :
        /\ InterruptRead(s)
        /\ ~listening
        /\ conn[t] = "idle"

\* The first chunk of Session s ended inside the JSON control message.
FirstChunkSplit(s) == firstRead[s] > 0 /\ firstRead[s] < Len(JsonBytes(req[s]))

\* C15: a Session whose first chunk is no whole JSON control message ends
\* its connection and dispatches nothing, and the daemon runs on.
UnparsableChunkClosed ==
    \A s \in Sessions :
        FirstChunkSplit(s) => /\ alive
                              /\ conn[s] = "ended"
                              /\ dispatched[s] = <<>>

\* The client of Session s declared one payload length and sent another, the
\* Session read the JSON and the delimiter in its first chunk, and the client
\* has nothing more to send.
LengthMismatchSent(s) ==
    /\ req[s].delim
    /\ req[s].sent # req[s].len
    /\ FirstReadHolds(s, Len(JsonBytes(req[s])) + 1)
    /\ wire[s] = <<>>

\* C16: after a client has sent fewer or more payload bytes than it declared,
\* the daemon runs on and the Session is not left waiting for stdin bytes.
LengthMismatchEnds ==
    \A s \in Sessions :
        LengthMismatchSent(s) => /\ alive
                                 /\ ~Positive(pendingStdinLength[s])

\* C17: over the lifetime of a connection its Session dispatches at most
\* once, however many chunks arrive.
DispatchAtMostOnce ==
    \A s \in Sessions : Len(dispatched[s]) <= 1

\* The step is a chunk handled by a Session whose Request is the interrupt
\* of the owner.
InterruptStep ==
    \E s \in Sessions :
        /\ req[s].stdin = CTRL_C_CHAR
        /\ RequestUser(req[s].user) = mOwner
        /\ effects'[s] # effects[s]

\* C18: the listener stops only in a step that handles the interrupt of an
\* authenticated Request: no rejected Request, no prompt reply and no dispatch
\* stops it.
ListenerStoppedByInterruptOnly ==
    [][(listening /\ ~listening') => InterruptStep]_daemonVars

\* The same for the steps the daemon process survives: server.close() is
\* called by the interrupt path only.
ServerClosedByInterruptOnly ==
    [][(listening /\ ~listening' /\ alive') => InterruptStep]_daemonVars

\* C19: with two Sessions relaying payloads at the same time, what stdin
\* holds when a Session dispatches is that Session's own payload and the end
\* of input, whatever the other Session has relayed.
OwnPayloadOnly ==
    \A s \in Sessions :
        (StdinRequestRead(s) /\ ~req[s].wide)
            => \A i \in 1..Len(dispatched[s]) :
                   dispatched[s][i].input = Append(Payload(req[s].len), EOF)

\* The chunk Session s reads in the step, and what the step adds to its
\* effects.
ChunkRead(s) == SubSeq(wire[s], 1, Len(wire[s]) - Len(wire'[s]))

NewEffects(s) == SubSeq(effects'[s], Len(effects[s]) + 1, Len(effects'[s]))

\* C23: a chunk that arrives while the pending-stdin counter of its Session
\* is positive is pushed to stdin once, byte for byte, and the counter goes
\* down by its length; it is not parsed, answered or rejected, and what is
\* dispatched, when the counter reaches zero, is the Request the Session had.
ContinuationOnly ==
    [][\A s \in Sessions :
         (Positive(pendingStdinLength[s]) /\ wire'[s] # wire[s])
         => LET chunk == ChunkRead(s)
                pushes == [i \in 1..Len(chunk) |-> <<"push", chunk[i]>>]
                done == NotPositive(Minus(pendingStdinLength[s], Len(chunk)))
            IN  /\ pendingStdinLength'[s] = Minus(pendingStdinLength[s], Len(chunk))
                /\ NewEffects(s) = pushes \o (IF done THEN << <<"push", EOF>>, <<"parse", "">> >>
                                                      ELSE <<>>)
                /\ jsonData'[s] = jsonData[s]
                /\ conn'[s] = conn[s]
                /\ listening' = listening
                /\ dispatched'[s] = IF done
                                    THEN Append(dispatched[s], [argv |-> jsonData[s].argv,
                                                                input |-> stdin'.buf])
                                    ELSE dispatched[s]]_daemonVars

ContinuationOnlyWitness ==
    \E s \in Sessions :
        /\ StdinRequestRead(s)
        /\ firstRead[s] < Len(Encode(req[s])) - 1
        /\ wire[s] = <<>>
        /\ Len(dispatched[s]) = 1
        /\ PushedBytes(s) = Payload(req[s].len)

\* The ends of input Session s has pushed after the step.
EofPushes(s) == SelectSeq(effects'[s], LAMBDA e : e = <<"push", EOF>>)

\* The step dispatches the Request of Session s as a step of data() should:
\* the counter is at zero or below, the end of input has been pushed once, as
\* the last thing before the dispatch, and stdin is no terminal.
DispatchedAfterInput(s) ==
    LET e == effects'[s]
    IN  /\ NotPositive(pendingStdinLength'[s])
        /\ Len(e) >= 2
        /\ e[Len(e)] = <<"parse", "">>
        /\ e[Len(e) - 1] = <<"push", EOF>>
        /\ Len(EofPushes(s)) = 1
        /\ stdin'.isTTY = "false"

\* C24: a Request that declares a stdin payload is dispatched only when the
\* counter has reached zero or below, after one end of input pushed behind
\* the last payload byte, with stdin reporting that it is no terminal.
DispatchAfterPayload ==
    [][\A s \in Sessions :
         (req[s].delim /\ dispatched'[s] # dispatched[s]) => DispatchedAfterInput(s)]_daemonVars

\* The same for the Requests whose JSON and delimiter arrive in one chunk.
DispatchAfterPayloadRead ==
    [][\A s \in Sessions :
         (StdinRequestRead(s)' /\ dispatched'[s] # dispatched[s]) => DispatchedAfterInput(s)]_daemonVars

\* The step is the first read of Session s and takes in the whole JSON of a
\* prompt reply of the owner: a stdin field that is not the interrupt, no
\* declared length.
PromptReplyStep(s) ==
    /\ req[s].stdin \notin {Undefined, CTRL_C_CHAR}
    /\ ~req[s].delim
    /\ RequestUser(req[s].user) = mOwner
    /\ firstRead[s] = 0
    /\ firstRead'[s] = Len(JsonBytes(req[s]))

\* C25: a prompt reply of the owner is ignored: the step that reads it
\* dispatches nothing, writes nothing, ends no connection, leaves the
\* listener, stdin and the pending-stdin counter as they were.
PromptReplyIgnored ==
    [][\A s \in Sessions :
         PromptReplyStep(s)
         => /\ dispatched' = dispatched
            /\ effects' = effects
            /\ conn' = conn
            /\ listening' = listening
            /\ alive' = alive
            /\ stdin' = stdin
            /\ pendingStdinLength' = pendingStdinLength]_daemonVars

PromptReplyIgnoredWitness ==
    \E s \in Sessions :
        /\ req[s].stdin \notin {Undefined, CTRL_C_CHAR}
        /\ RequestUser(req[s].user) = mOwner
        /\ firstRead[s] = Len(JsonBytes(req[s]))
        /\ conn[s] = "open"
        /\ listening

\* The payload bytes in the first chunk of Session s.
FirstSlice(s) == SubSeq(Encode(req[s]), Len(JsonBytes(req[s])) + 2, firstRead[s])

\* C26: when the first chunk holds the JSON, the delimiter and payload bytes,
\* the JSON decoded is the JSON sent and the first bytes pushed to stdin are
\* the bytes that follow the delimiter in the chunk, none of the JSON or the
\* delimiter among them and none missing, whatever characters the JSON holds.
SliceAfterDelimiter ==
    \A s \in Sessions :
        StdinRequestRead(s)
            => /\ jsonData[s] = JsonParse(Utf8ToString(JsonBytes(req[s])))
               /\ Len(PushedBytes(s)) >= Len(FirstSlice(s))
               /\ SubSeq(PushedBytes(s), 1, Len(FirstSlice(s))) = FirstSlice(s)

(***************************************************************************)
(* Part 2 models the event layer.  Several processes share the event       *)
(* files; each process has its own emitter (subscriptions, eventTimes) and *)
(* its own watchers.  A file is written in two steps, as fs.writeFileSync  *)
(* does it (open with truncation, then write): a process is single         *)
(* threaded, so its own watch callbacks never run between the two, but     *)
(* those of another process may.  Every change of a file queues native     *)
(* notifications for every open watcher on it.                             *)
(***************************************************************************)

\* ------------------------------------------------------------------ bounds
\* The calls of subscribe over all processes, the calls of emit, the native
\* notifications queued per watcher and change.
MaxSubscribes == 2

MaxEmits == 2

MaxFires == 2

\* ------------------------------------------------------ events: constants
Procs == {"A", "B"}

\* The processes that emit: the event file has a single writer.
Emitters == {"A"}

\* The declared events: configChanged is a shared event, vaultChanged a
\* user event.
SharedEvents == {"configChanged"}

UserEvents == {"vaultChanged"}

Names == SharedEvents \cup UserEvents

\* A name an application makes up: it is in neither list.
CustomEvents == {"myAppEvent"}

EventNames == Names \cup CustomEvents

\* isUserEvent, isSharedEvent and isCustomEvent, lines 147-168.
IsUserEvent(n) == n \in UserEvents

IsSharedEvent(n) == n \in SharedEvents

\* An isCustomEvent that takes no name for a custom one.
IsCustomEventNever(n) == FALSE

IsCustomEvent(n) == ~IsUserEvent(n) /\ ~IsSharedEvent(n)

\* getSharedEventDir and getUserEventDir, lines 173-182.
GetSharedEventDir == ".events"

GetUserEventDir == "~/.zowe/.events"

\* new Date().toISOString() of the n-th millisecond of the clock.
IsoStrings == <<"T0", "T1", "T2", "T3", "T4", "T5", "T6", "T7", "T8">>

ToISOString(ms) == IsoStrings[ms + 1]

\* The millisecond an ISO string stands for.
FromISOString(t) == (CHOOSE i \in 1..Len(IsoStrings) : IsoStrings[i] = t) - 1

\* The clock readings that can follow the reading now: the clock has not
\* advanced, or it has by a millisecond.
ClockReadings(now0) == now0..(now0 + 1)

\* JSON.stringify of an object, as the sequence of its <<key, value>> pairs,
\* and JSON.parse of such a text: the value of key k.
JsonStringify(keys, obj) == [i \in 1..Len(keys) |-> <<keys[i], obj[keys[i]]>>]

JsonGet(text, k) ==
    LET hits == { i \in 1..Len(text) : text[i][1] = k }
    IN  IF hits = {} THEN Undefined ELSE text[CHOOSE i \in hits : TRUE][2]

\* ImperativeEvent.toJson() with loc added, line 109, in the order written.
EventKeys == <<"time", "type", "source", "loc">>

\* getEventDir, lines 189-197.
GetEventDir(n) ==
    IF IsUserEvent(n) THEN GetUserEventDir
    ELSE IF IsSharedEvent(n) THEN GetSharedEventDir
    ELSE GetSharedEventDir

\* The text writeEvent writes for an event of type n made by process p at
\* clock reading t, lines 108-112.
EventText(p, n, t) ==
    JsonStringify(EventKeys, [time |-> ToISOString(t), type |-> n, source |-> p, loc |-> GetEventDir(n)])

\* The same for an event written to the directory location.
EventTextAt(p, n, t, location) ==
    JsonStringify(EventKeys, [time |-> ToISOString(t), type |-> n, source |-> p, loc |-> location])

\* The time the watch callback takes from the contents it read, lines 128-129.
EventTimeOf(contents) == IF Len(contents) = 0 THEN "" ELSE JsonGet(contents, "time")

\* ---------------------------------------------------------- events: state
VARIABLES
    now,            \* the last reading of the clock
    files,          \* per event name: [exists, text] of the event file
    pc,             \* per process: where its synchronous call stands: [at, name, text, call]
    subscriptions,  \* per process and name: [has, watcher, callbacks]
    eventTimes,     \* per process and name: the last delivered time, Undefined when none
    watchers,       \* per process: the watchers it made: [name, callbacks, open, pending]
    calls,          \* per process: the number of invocations of each callback (history)
    written,        \* per name: the clock readings of the completed writes (history)
    emitsBegun,     \* the number of emits begun (history)
    emptyReads,     \* the names whose file a watch callback read empty after a completed write (history)
    thrown,         \* per process: the error its last call ended with, "" when none
    subscribedEvents, \* per process and name: the Event of eeInst.subscribedEvents: [has, eventTime, subscriptions]
    initialized,    \* per process: ImperativeEventEmitter.initialized
    initializations, \* per process: the calls of initialize that returned (history)
    heard,          \* per process and name: the writes completed when its EventUtils callback last ran on a whole file (history)
    failures,       \* the failures of file system calls so far: [op, path, raised, named] (history)
    dirs            \* the directories that exist

eventVars == <<now, files, pc, subscriptions, eventTimes, watchers, calls, written, emitsBegun,
               emptyReads, thrown, subscribedEvents, initialized, initializations, heard,
               failures, dirs>>

vars == <<daemonVars, eventVars>>

Idle == [at |-> "idle", name |-> "", text |-> <<>>, call |-> ""]

NoSubscription == [has |-> FALSE, watcher |-> 0, callbacks |-> <<>>]

NoEvent == [has |-> FALSE, eventTime |-> "", subscriptions |-> <<>>]

EventInit ==
    /\ now = 0
    /\ files = [n \in EventNames |-> [exists |-> FALSE, text |-> <<>>]]
    /\ pc = [p \in Procs |-> Idle]
    /\ subscriptions = [p \in Procs |-> [n \in EventNames |-> NoSubscription]]
    /\ eventTimes = [p \in Procs |-> [n \in EventNames |-> Undefined]]
    /\ watchers = [p \in Procs |-> <<>>]
    /\ calls = [p \in Procs |-> <<>>]
    /\ written = [n \in EventNames |-> <<>>]
    /\ emitsBegun = 0
    /\ emptyReads = {}
    /\ thrown = [p \in Procs |-> ""]
    /\ subscribedEvents = [p \in Procs |-> [n \in EventNames |-> NoEvent]]
    /\ initialized = [p \in Procs |-> FALSE]
    /\ initializations = [p \in Procs |-> 0]
    /\ heard = [p \in Procs |-> [n \in EventNames |-> 0]]
    /\ failures = {}
    /\ dirs = {}

\* ------------------------------------------------- events: the file system
\* fs.existsSync(directoryPath), line 69.
ExistsSync(ds, d) == d \in ds

\* fs.mkdirSync(directoryPath), line 70: it throws when the path exists.
MkdirSync(ds, d) ==
    IF d \in ds THEN [dirs |-> ds, error |-> "EEXIST"]
    ELSE [dirs |-> ds \cup {d}, error |-> ""]

\* The message of the ImperativeError of line 73, followed by the path.
UnableToCreateDir == "Unable to create '.events' directory. Path: "

\* The message of the ImperativeError of line 87, followed by the path.
UnableToCreateFile == "Unable to create event file. Path: "

\* ensureEventsDirExists, lines 67-75, run without interruption on the
\* directories ds: the directories afterwards and the error thrown, "" when
\* none.
EnsureEventsDirExists(ds, d) ==
    IF ~ExistsSync(ds, d)
    THEN LET made == MkdirSync(ds, d)
         IN  [dirs |-> made.dirs,
              error |-> IF made.error = "" THEN "" ELSE UnableToCreateDir]
    ELSE [dirs |-> ds, error |-> ""]

\* fs.closeSync(fs.openSync(filePath, 'w')), line 84, in a directory that
\* exists: the file is created, or emptied when it exists.
OpenSyncW(fs, n) == [fs EXCEPT ![n] = [exists |-> TRUE, text |-> <<>>]]

\* An ensureEventFileExists that opens the file whether it exists or not.
EnsureEventFileExistsTruncating(ds, fs, n) ==
    IF GetEventDir(n) \in ds
    THEN [files |-> OpenSyncW(fs, n), error |-> ""]
    ELSE [files |-> fs, error |-> UnableToCreateFile]

\* ensureEventFileExists, lines 81-89, run without interruption for the
\* file of n on the directories ds and the files fs: the files afterwards
\* and the error thrown, "" when none.  fs.openSync throws when the
\* directory is missing.
EnsureEventFileExists(ds, fs, n) ==
    IF ~fs[n].exists
    THEN IF GetEventDir(n) \in ds
         THEN [files |-> OpenSyncW(fs, n), error |-> ""]
         ELSE [files |-> fs, error |-> UnableToCreateFile]
    ELSE [files |-> fs, error |-> ""]

\* The watchers after a change of the file of n: every open watcher on it,
\* in every process, has native notifications queued (up to MaxFires).
Notified(ws, n) ==
    [p \in Procs |->
        [i \in 1..Len(ws[p]) |->
            IF ws[p][i].open /\ ws[p][i].name = n
            THEN [ws[p][i] EXCEPT !.pending = MaxFires]
            ELSE ws[p][i]]]

\* heard after the EventUtils callback of p ran for the file of n: the file
\* is whole when no write to it is under way.
Heard(p, n) ==
    IF files[n].text # <<>> THEN [heard EXCEPT ![p][n] = Len(written[n])] ELSE heard

\* watcher.close(): the watcher is closed and its queued notifications dropped.
Closed(ws, p, i) ==
    [ws EXCEPT ![p][i].open = FALSE, ![p][i].pending = 0]

\* ------------------------------------- ImperativeEventEmitter: the steps
\* A subscribe that leaves the watcher of the existing subscription open.
WatchAndStoreNoClose(ws, p, n) ==
    LET sub == subscriptions[p][n]
        id == Len(ws[p]) + 1
        callbacks == Append(sub.callbacks, id)
    IN  /\ watchers' = [ws EXCEPT ![p] = Append(@, [name |-> n, callbacks |-> callbacks,
                                                     open |-> TRUE, pending |-> 0])]
        /\ subscriptions' = [subscriptions EXCEPT ![p][n] = [has |-> TRUE, watcher |-> id,
                                                             callbacks |-> callbacks]]
        /\ calls' = [calls EXCEPT ![p] = Append(@, 0)]

\* setupWatcher from fs.watch on, lines 126-139, after subscribe closed the
\* watcher of an existing subscription, lines 238-242: the new watcher
\* holds the callbacks of the subscription and the new one, and replaces the
\* entry of the subscription map.  The k-th call of subscribe in a process
\* registers callback k and makes watcher k.
WatchAndStore(ws, p, n) ==
    LET sub == subscriptions[p][n]
        closed == IF sub.has THEN Closed(ws, p, sub.watcher) ELSE ws
        id == Len(ws[p]) + 1
        callbacks == Append(sub.callbacks, id)
    IN  /\ watchers' = [closed EXCEPT ![p] = Append(@, [name |-> n, callbacks |-> callbacks,
                                                         open |-> TRUE, pending |-> 0])]
        /\ subscriptions' = [subscriptions EXCEPT ![p][n] = [has |-> TRUE, watcher |-> id,
                                                             callbacks |-> callbacks]]
        /\ calls' = [calls EXCEPT ![p] = Append(@, 0)]

\* The calls of subscribe so far, the one under way included.
SubscribesBegun ==
    LET Begun(q) == Len(watchers[q]) + (IF pc[q].at = "creating" THEN 1 ELSE 0)
    IN  Begun("A") + Begun("B")

\* The messages of the ImperativeErrors of lines 34, 59 and 223.
OnlyOneInstance == "Only one instance of the Imperative Event Emitter is allowed"

MustInitialize == "You must initialize the instance before using any of its methods."

OperationNotAllowed == "Operation not allowed. Event is considered protected."

\* A call of p that throws msg before it has changed anything.
Throws(p, msg) ==
    /\ UNCHANGED <<daemonVars, failures, dirs, subscribedEvents, heard>>
    /\ pc[p] = Idle
    /\ thrown' = [thrown EXCEPT ![p] = msg]
    /\ UNCHANGED <<now, files, pc, subscriptions, eventTimes, watchers, calls, written,
                   emitsBegun, emptyReads>>

\* initialize from line 36 on: the class is marked initialized.
DoInitialize(p) ==
    /\ UNCHANGED <<daemonVars, failures, dirs, subscribedEvents, heard>>
    /\ pc[p] = Idle
    /\ initialized' = [initialized EXCEPT ![p] = TRUE]
    /\ initializations' = [initializations EXCEPT ![p] = @ + 1]
    /\ thrown' = [thrown EXCEPT ![p] = ""]
    /\ UNCHANGED <<now, files, pc, subscriptions, eventTimes, watchers, calls, written,
                   emitsBegun, emptyReads>>

\* An ensureClassInitialized that lets every call pass.
EnsureClassInitializedAlways(p) == TRUE

\* ensureClassInitialized, lines 57-61: whether the call goes on.
EnsureClassInitialized(p) == initialized[p]

\* initialize, lines 32-44.
Initialize(p) ==
    IF initialized[p]
    THEN Throws(p, OnlyOneInstance) /\ UNCHANGED <<initialized, initializations>>
    ELSE DoInitialize(p)

\* subscribe, lines 234-247, with setupWatcher, lines 121-140.  When
\* ensureEventFileExists finds no file, another process may run between its
\* existsSync and its openSync.
DoSubscribe(p, n) ==
    /\ UNCHANGED <<daemonVars, failures, subscribedEvents, heard, initialized, initializations>>
    /\ dirs' = EnsureEventsDirExists(dirs, GetEventDir(n)).dirs
    /\ pc[p] = Idle
    /\ SubscribesBegun < MaxSubscribes
    /\ thrown' = [thrown EXCEPT ![p] = ""]
    /\ IF files[n].exists
       THEN /\ WatchAndStore(watchers, p, n)
            /\ UNCHANGED pc
       ELSE /\ pc' = [pc EXCEPT ![p] = [at |-> "creating", name |-> n, text |-> <<>>, call |-> "subscribe"]]
            /\ UNCHANGED <<watchers, subscriptions, calls>>
    /\ UNCHANGED <<now, files, eventTimes, written, emitsBegun, emptyReads>>

Subscribe(p, n) ==
    IF EnsureClassInitialized(p)
    THEN DoSubscribe(p, n)
    ELSE Throws(p, MustInitialize) /\ UNCHANGED <<initialized, initializations>>

\* fs.closeSync(fs.openSync(filePath, 'w')), line 84, and the rest of
\* setupWatcher: the file is created, or emptied when it exists by now.
SubscribeCreate(p) ==
    /\ UNCHANGED <<daemonVars, failures, dirs, subscribedEvents, heard, initialized, initializations>>
    /\ pc[p].at = "creating"
    /\ LET n == pc[p].name
       IN  /\ files' = [files EXCEPT ![n] = [exists |-> TRUE, text |-> <<>>]]
           /\ WatchAndStore(Notified(watchers, n), p, n)
    /\ pc' = [pc EXCEPT ![p] = Idle]
    /\ UNCHANGED <<now, eventTimes, written, emitsBegun, emptyReads, thrown>>

\* An unsubscribe that deletes its entries and leaves the watcher open.
DoUnsubscribeNoClose(p, n) ==
    /\ UNCHANGED <<daemonVars, failures, dirs, subscribedEvents, heard, initialized, initializations>>
    /\ pc[p] = Idle
    /\ subscriptions' = [subscriptions EXCEPT ![p][n] = NoSubscription]
    /\ eventTimes' = [eventTimes EXCEPT ![p][n] = Undefined]
    /\ thrown' = [thrown EXCEPT ![p] = ""]
    /\ UNCHANGED <<now, files, pc, watchers, calls, written, emitsBegun, emptyReads>>

\* unsubscribe, lines 253-264.
DoUnsubscribe(p, n) ==
    /\ UNCHANGED <<daemonVars, failures, dirs, subscribedEvents, heard, initialized, initializations>>
    /\ pc[p] = Idle
    /\ LET sub == subscriptions[p][n]
       IN  watchers' = IF sub.has THEN Closed(watchers, p, sub.watcher) ELSE watchers
    /\ subscriptions' = [subscriptions EXCEPT ![p][n] = NoSubscription]
    /\ eventTimes' = [eventTimes EXCEPT ![p][n] = Undefined]
    /\ thrown' = [thrown EXCEPT ![p] = ""]
    /\ UNCHANGED <<now, files, pc, calls, written, emitsBegun, emptyReads>>

Unsubscribe(p, n) ==
    IF EnsureClassInitialized(p)
    THEN DoUnsubscribe(p, n)
    ELSE Throws(p, MustInitialize) /\ UNCHANGED <<initialized, initializations>>

\* The error of FSWatcher.prototype.close called on an object that is no
\* FSWatcher.
CloseError == "close: handle must be a FSEvent"

\* The disposer subscribe returns, line 246: { close: watcher.close } calls
\* FSWatcher.prototype.close with the disposer as this, which has no handle:
\* the call throws and the watcher stays as it is.
Dispose(p, i) ==
    /\ UNCHANGED <<daemonVars, failures, dirs, subscribedEvents, heard, initialized, initializations>>
    /\ pc[p] = Idle
    /\ i \in 1..Len(watchers[p])
    /\ thrown' = [thrown EXCEPT ![p] = CloseError]
    /\ UNCHANGED <<now, files, pc, subscriptions, eventTimes, watchers, calls, written,
                   emitsBegun, emptyReads>>

\* The messages of the ImperativeErrors of line 208; the message of line
\* 223 is OperationNotAllowed.
UnableToDetermine == "Unable to determine the type of event."

\* The open of fs.writeFileSync, line 112, for the event that initEvent
\* made: the event takes its time from the clock and the file is emptied.
OpenForWrite(p, n, location, call) ==
    /\ UNCHANGED <<daemonVars, failures, subscribedEvents, heard, initialized, initializations>>
    /\ p \in Emitters
    /\ emitsBegun < MaxEmits
    /\ \E t \in ClockReadings(now) :
        /\ now' = t
        /\ pc' = [pc EXCEPT ![p] = [at |-> "writing", name |-> n,
                                    text |-> EventTextAt(p, n, t, location), call |-> call]]
    /\ files' = [files EXCEPT ![n] = [exists |-> TRUE, text |-> <<>>]]
    /\ watchers' = Notified(watchers, n)
    /\ emitsBegun' = emitsBegun + 1
    /\ thrown' = [thrown EXCEPT ![p] = ""]
    /\ UNCHANGED <<subscriptions, eventTimes, calls, written, emptyReads>>

\* writeEvent, lines 107-113, up to the open of fs.writeFileSync, line 112,
\* with an ensureEventsDirExists that no other process interrupts.
WriteEvent(p, n, location, call) ==
    /\ pc[p] = Idle
    /\ dirs' = EnsureEventsDirExists(dirs, location).dirs
    /\ OpenForWrite(p, n, location, call)

\* emitEvent after initEvent, lines 207-211: a custom name is refused.
DoEmitEvent(p, n) ==
    IF IsCustomEvent(n)
    THEN Throws(p, UnableToDetermine) /\ UNCHANGED <<initialized, initializations>>
    ELSE WriteEvent(p, n, GetEventDir(n), "emitEvent")

\* emitEvent, lines 204-212.
EmitBegin(p, n) ==
    IF EnsureClassInitialized(p)
    THEN DoEmitEvent(p, n)
    ELSE Throws(p, MustInitialize) /\ UNCHANGED <<initialized, initializations>>

\* emitCustomEvent, lines 219-227: initEvent checks the initialization, a
\* declared name is protected, and a custom event is written to the shared
\* directory.
EmitCustomEvent(p, n) ==
    IF ~EnsureClassInitialized(p)
    THEN Throws(p, MustInitialize) /\ UNCHANGED <<initialized, initializations>>
    ELSE IF ~IsCustomEvent(n)
    THEN Throws(p, OperationNotAllowed) /\ UNCHANGED <<initialized, initializations>>
    ELSE WriteEvent(p, n, GetSharedEventDir, "emitCustomEvent")

\* An emit that calls the callbacks of its own process when it has written.
EmitEndCalling(p) ==
    /\ UNCHANGED <<daemonVars, failures, dirs, subscribedEvents, heard, initialized, initializations>>
    /\ pc[p].at = "writing"
    /\ LET n == pc[p].name
           cbs == subscriptions[p][n].callbacks
       IN  /\ files' = [files EXCEPT ![n].text = pc[p].text]
           /\ watchers' = Notified(watchers, n)
           /\ written' = [written EXCEPT ![n] = Append(@, FromISOString(JsonGet(pc[p].text, "time")))]
           /\ calls' = [calls EXCEPT ![p] =
                           [c \in 1..Len(@) |-> IF \E j \in 1..Len(cbs) : cbs[j] = c
                                                THEN @[c] + 1 ELSE @[c]]]
    /\ pc' = [pc EXCEPT ![p] = Idle]
    /\ UNCHANGED <<now, subscriptions, eventTimes, emitsBegun, emptyReads, thrown>>

\* The write and the close of fs.writeFileSync, line 112.
EmitEnd(p) ==
    /\ UNCHANGED <<daemonVars, failures, dirs, subscribedEvents, heard, initialized, initializations>>
    /\ pc[p].at = "writing"
    /\ LET n == pc[p].name
       IN  /\ files' = [files EXCEPT ![n].text = pc[p].text]
           /\ watchers' = Notified(watchers, n)
           /\ written' = [written EXCEPT ![n] = Append(@, FromISOString(JsonGet(pc[p].text, "time")))]
    /\ pc' = [pc EXCEPT ![p] = Idle]
    /\ UNCHANGED <<now, subscriptions, eventTimes, calls, emitsBegun, emptyReads, thrown>>

\* The callback of fs.watch, lines 126-137: one native notification.
WatchCallback(p, i) ==
    LET w == watchers[p][i]
        eventContents == files[w.name].text
        eventTime == EventTimeOf(eventContents)
    IN  /\ IF eventTimes[p][w.name] # eventTime
           THEN /\ calls' = [calls EXCEPT ![p] =
                                [c \in 1..Len(@) |-> IF \E j \in 1..Len(w.callbacks) : w.callbacks[j] = c
                                                     THEN @[c] + 1 ELSE @[c]]]
                /\ eventTimes' = [eventTimes EXCEPT ![p][w.name] = eventTime]
           ELSE UNCHANGED <<calls, eventTimes>>
        /\ emptyReads' = IF Len(eventContents) = 0 /\ written[w.name] # <<>>
                         THEN emptyReads \cup {w.name} ELSE emptyReads

Fire(p, i) ==
    /\ UNCHANGED <<daemonVars, failures, dirs, subscribedEvents, heard, initialized, initializations>>
    /\ pc[p] = Idle
    /\ i \in 1..Len(watchers[p])
    /\ watchers[p][i].open
    /\ watchers[p][i].pending > 0
    /\ WatchCallback(p, i)
    /\ watchers' = [watchers EXCEPT ![p][i].pending = @ - 1]
    /\ UNCHANGED <<now, files, pc, subscriptions, written, emitsBegun, thrown>>

\* A process that initializes its emitter once.
Start(p) == ~initialized[p] /\ Initialize(p)

\* The processes of well-behaved clients: each initializes its emitter once
\* and uses the shared event through subscribe, unsubscribe and emitEvent.
EmitterNext ==
    \E p \in Procs :
        \/ Start(p)
        \/ \E n \in SharedEvents : Subscribe(p, n) \/ Unsubscribe(p, n) \/ EmitBegin(p, n)
        \/ SubscribeCreate(p)
        \/ EmitEnd(p)
        \/ \E i \in 1..MaxSubscribes : Dispose(p, i) \/ Fire(p, i)

\* The process whose client may call anything at any time.
LifecycleProcs == {"A"}

LifecycleNext ==
    \E p \in LifecycleProcs :
        \/ Initialize(p)
        \/ \E n \in Names : Subscribe(p, n) \/ Unsubscribe(p, n) \/ EmitBegin(p, n)
                             \/ EmitCustomEvent(p, n)
        \/ SubscribeCreate(p)
        \/ EmitEnd(p)
        \/ \E i \in 1..MaxSubscribes : Dispose(p, i) \/ Fire(p, i)

\* One process that uses declared and custom names with every call.
ScopesNext ==
    \E p \in LifecycleProcs :
        \/ Start(p)
        \/ \E n \in EventNames : Subscribe(p, n) \/ EmitBegin(p, n) \/ EmitCustomEvent(p, n)
        \/ SubscribeCreate(p)
        \/ EmitEnd(p)
        \/ \E i \in 1..MaxSubscribes : Fire(p, i)

\* ----------------------- ImperativeEventEmitter: a failing file system
\* The steps below are the same calls with a file system call that fails.

\* join(dir, eventType)
EventPath(n) == <<GetEventDir(n), n>>

\* The process ended on an uncaught exception.
Exited == [at |-> "exited", name |-> "", text |-> <<>>, call |-> ""]

\* The message of the error of fs.writeFileSync, followed by the path.
WriteDenied == "EACCES: permission denied, open "

\* No file of the directory of n exists: the directory may be missing.
DirMayBeMissing(n) ==
    \A m \in EventNames : GetEventDir(m) = GetEventDir(n) => ~files[m].exists

\* A call of p ends with the error msg of the failed operation op on path.
FailsInCall(p, op, path, msg) ==
    /\ UNCHANGED <<daemonVars, dirs, subscribedEvents, heard, initialized, initializations>>
    /\ initialized[p]
    /\ thrown' = [thrown EXCEPT ![p] = msg]
    /\ failures' = failures \cup {[op |-> op, path |-> path, raised |-> "call", named |-> TRUE]}
    /\ UNCHANGED <<now, files, subscriptions, eventTimes, watchers, calls, written,
                   emitsBegun, emptyReads>>

\* subscribe when fs.mkdirSync of ensureEventsDirExists throws, lines 67-75.
SubscribeDirFails(p, n) ==
    /\ pc[p] = Idle
    /\ DirMayBeMissing(n)
    /\ FailsInCall(p, "mkdir", <<GetEventDir(n)>>, UnableToCreateDir)
    /\ UNCHANGED pc

\* subscribe when fs.openSync of ensureEventFileExists throws, lines 81-89.
SubscribeFileFails(p) ==
    /\ pc[p].at = "creating"
    /\ FailsInCall(p, "open", EventPath(pc[p].name), UnableToCreateFile)
    /\ pc' = [pc EXCEPT ![p] = Idle]

\* emitEvent when fs.mkdirSync of ensureEventsDirExists throws, line 111.
EmitDirFails(p, n) ==
    /\ pc[p] = Idle
    /\ DirMayBeMissing(n)
    /\ FailsInCall(p, "mkdir", <<GetEventDir(n)>>, UnableToCreateDir)
    /\ UNCHANGED pc

\* emitEvent when fs.writeFileSync cannot open the file, line 112: the error
\* of fs leaves writeEvent and emitEvent as it is.
EmitWriteFails(p, n) ==
    /\ pc[p] = Idle
    /\ FailsInCall(p, "write", EventPath(n), WriteDenied)
    /\ UNCHANGED pc

\* The callback of fs.watch when fs.readFileSync throws, line 128: no caller
\* is on the stack, the exception is uncaught; the process ends unless it
\* has a handler for uncaught exceptions.
FireReadFails(p, i) ==
    /\ UNCHANGED <<daemonVars, dirs, subscribedEvents, heard, initialized, initializations>>
    /\ pc[p] = Idle
    /\ i \in 1..Len(watchers[p])
    /\ watchers[p][i].open
    /\ watchers[p][i].pending > 0
    /\ failures' = failures \cup {[op |-> "read", path |-> EventPath(watchers[p][i].name),
                                   raised |-> "notification", named |-> TRUE]}
    /\ watchers' = [watchers EXCEPT ![p][i].pending = @ - 1]
    /\ pc' \in {[pc EXCEPT ![p] = Idle], [pc EXCEPT ![p] = Exited]}
    /\ UNCHANGED <<now, files, subscriptions, eventTimes, calls, written, emitsBegun,
                   emptyReads, thrown>>

\* One process on a file system whose calls may fail.
FaultsNext ==
    \E p \in LifecycleProcs :
        \/ Start(p)
        \/ \E n \in SharedEvents :
                            \/ Subscribe(p, n) \/ Unsubscribe(p, n) \/ EmitBegin(p, n)
                            \/ SubscribeDirFails(p, n) \/ EmitDirFails(p, n) \/ EmitWriteFails(p, n)
        \/ SubscribeCreate(p) \/ SubscribeFileFails(p)
        \/ EmitEnd(p)
        \/ \E i \in 1..MaxSubscribes : Fire(p, i) \/ FireReadFails(p, i)

\* ------------- ImperativeEventEmitter: the file system calls one by one
\* The steps below are subscribe and emitEvent with every file system call
\* of ensureEventsDirExists and ensureEventFileExists a step of its own, so
\* that another process may run between an existsSync and the call after it.

\* The calls of subscribe so far, the ones under way included.
EnsureSubscribesBegun ==
    LET Begun(q) == Len(watchers[q]) + (IF pc[q].call = "subscribe" THEN 1 ELSE 0)
    IN  Begun("A") + Begun("B")

\* fs.existsSync(directoryPath), line 69, of the ensureEventsDirExists of
\* setupWatcher, line 123 (call "subscribe"), or of writeEvent, line 111
\* (call "emitEvent").
EnsureDirBegin(p, n, call) ==
    /\ UNCHANGED <<daemonVars, failures, dirs, subscribedEvents, heard, initialized, initializations>>
    /\ pc[p] = Idle
    /\ EnsureClassInitialized(p)
    /\ call = "subscribe" => EnsureSubscribesBegun < MaxSubscribes
    /\ call = "emitEvent" => p \in Emitters /\ emitsBegun < MaxEmits
    /\ thrown' = [thrown EXCEPT ![p] = ""]
    /\ pc' = [pc EXCEPT ![p] = [at |-> IF ExistsSync(dirs, GetEventDir(n)) THEN "ensured" ELSE "mkdir",
                                name |-> n, text |-> <<>>, call |-> call]]
    /\ UNCHANGED <<now, files, subscriptions, eventTimes, watchers, calls, written,
                   emitsBegun, emptyReads>>

\* fs.mkdirSync(directoryPath), line 70, and the catch of lines 72-74: an
\* error of mkdirSync ends the call with the ImperativeError of line 73.
EnsureDirEnd(p) ==
    /\ UNCHANGED <<daemonVars, failures, subscribedEvents, heard, initialized, initializations>>
    /\ pc[p].at = "mkdir"
    /\ LET made == MkdirSync(dirs, GetEventDir(pc[p].name))
       IN  /\ dirs' = made.dirs
           /\ IF made.error = ""
              THEN /\ pc' = [pc EXCEPT ![p].at = "ensured"]
                   /\ UNCHANGED thrown
              ELSE /\ pc' = [pc EXCEPT ![p] = Idle]
                   /\ thrown' = [thrown EXCEPT ![p] = UnableToCreateDir]
    /\ UNCHANGED <<now, files, subscriptions, eventTimes, watchers, calls, written,
                   emitsBegun, emptyReads>>

\* fs.existsSync(filePath), line 83, of the ensureEventFileExists of
\* setupWatcher, line 125: when the file exists the call is over and
\* setupWatcher goes on, lines 126-139.
EnsureFileBegin(p) ==
    /\ UNCHANGED <<daemonVars, failures, dirs, subscribedEvents, heard, initialized, initializations>>
    /\ pc[p].at = "ensured"
    /\ pc[p].call = "subscribe"
    /\ LET n == pc[p].name
       IN  IF files[n].exists
           THEN /\ files' = EnsureEventFileExists(dirs, files, n).files
                /\ WatchAndStore(watchers, p, n)
                /\ pc' = [pc EXCEPT ![p] = Idle]
           ELSE /\ pc' = [pc EXCEPT ![p].at = "creating"]
                /\ UNCHANGED <<files, watchers, subscriptions, calls>>
    /\ UNCHANGED <<now, eventTimes, written, emitsBegun, emptyReads, thrown>>

\* writeEvent after its ensureEventsDirExists: the open of fs.writeFileSync,
\* line 112.
EnsureWrite(p) ==
    /\ pc[p].at = "ensured"
    /\ pc[p].call = "emitEvent"
    /\ UNCHANGED dirs
    /\ OpenForWrite(p, pc[p].name, GetEventDir(pc[p].name), "emitEvent")

\* Two processes whose file system calls interleave; the notifications of
\* their watchers stay queued.
EnsureNext ==
    \E p \in Procs :
        \/ Start(p)
        \/ \E n \in Names : EnsureDirBegin(p, n, "subscribe") \/ EnsureDirBegin(p, n, "emitEvent")
        \/ EnsureDirEnd(p)
        \/ EnsureFileBegin(p) \/ SubscribeCreate(p)
        \/ EnsureWrite(p) \/ EmitEnd(p)

\* --------------- ImperativeEventEmitter: callbacks that throw
\* The callback of fs.watch, lines 126-137, when the k-th callback of the
\* list throws: callbacks.forEach, line 134, has invoked the callbacks up to
\* the k-th and ends there, and line 135 is not reached.
WatchCallbackThrows(p, i, k) ==
    LET w == watchers[p][i]
        eventContents == files[w.name].text
        eventTime == EventTimeOf(eventContents)
    IN  /\ k \in 1..Len(w.callbacks)
        /\ eventTimes[p][w.name] # eventTime
        /\ calls' = [calls EXCEPT ![p] =
                        [c \in 1..Len(@) |-> IF \E j \in 1..k : w.callbacks[j] = c
                                             THEN @[c] + 1 ELSE @[c]]]
        /\ UNCHANGED eventTimes
        /\ emptyReads' = IF Len(eventContents) = 0 /\ written[w.name] # <<>>
                         THEN emptyReads \cup {w.name} ELSE emptyReads

\* One native notification whose delivery a callback ends by throwing: no
\* caller is on the stack, the exception is uncaught; the process ends
\* unless it has a handler for uncaught exceptions.
FireThrows(p, i, k) ==
    /\ UNCHANGED <<daemonVars, failures, dirs, subscribedEvents, heard, initialized, initializations>>
    /\ pc[p] = Idle
    /\ i \in 1..Len(watchers[p])
    /\ watchers[p][i].open
    /\ watchers[p][i].pending > 0
    /\ WatchCallbackThrows(p, i, k)
    /\ watchers' = [watchers EXCEPT ![p][i].pending = @ - 1]
    /\ pc' \in {[pc EXCEPT ![p] = Idle], [pc EXCEPT ![p] = Exited]}
    /\ UNCHANGED <<now, files, subscriptions, written, emitsBegun, thrown>>

\* One process whose callbacks may throw.
ThrowingNext ==
    \E p \in LifecycleProcs :
        \/ Start(p)
        \/ \E n \in SharedEvents : Subscribe(p, n) \/ EmitBegin(p, n)
        \/ SubscribeCreate(p)
        \/ EmitEnd(p)
        \/ \E i \in 1..MaxSubscribes :
                \/ Fire(p, i)
                \/ \E k \in 1..MaxSubscribes : FireThrows(p, i, k)

\* ------------------------------------------------- EventUtils: the steps
\* The emitter that uses EventUtils keeps, per event name, one Event in
\* subscribedEvents; the watch callback compares eventTimes with the
\* eventTime of that Event.  An open watcher always belongs to the Event of
\* the map: the Event is replaced only when the name has no subscription.

\* Event.toJson(): the fields of the event file.
UtilsEventKeys == <<"eventTime", "eventName", "eventType", "appName">>

\* The text writeEvent writes for an Event, line 149.
UtilsEventText(p, n, t) ==
    JsonStringify(UtilsEventKeys, [eventTime |-> ToISOString(t), eventName |-> n,
                                   eventType |-> "SharedEvents", appName |-> p])

\* createSubscription from new Event on, lines 108-117: the Event takes its
\* eventTime from the clock and has no watcher yet.
CreateSubscription(t) == [has |-> TRUE, eventTime |-> ToISOString(t), subscriptions |-> <<>>]

\* The watchers ws of p with those of ids closed.
ClosedAll(ws, p, ids) ==
    [ws EXCEPT ![p] = [i \in 1..Len(@) |->
        IF \E j \in 1..Len(ids) : ids[j] = i THEN [@[i] EXCEPT !.open = FALSE, !.pending = 0] ELSE @[i]]]

\* subscribe of the emitter after the file exists: with no subscription for
\* the name, createSubscription and setupWatcher for the callback; with one,
\* the watch is restarted with the callback appended.  setupWatcher, lines
\* 124-141, pushes the watcher onto event.subscriptions.
UtilsWatchAndStore(ws, p, n, t) ==
    LET old == subscribedEvents[p][n]
        event == IF old.has THEN old ELSE CreateSubscription(t)
        before == IF old.has /\ old.subscriptions # <<>>
                  THEN ws[p][old.subscriptions[Len(old.subscriptions)]].callbacks ELSE <<>>
        id == Len(ws[p]) + 1
    IN  /\ watchers' = [ClosedAll(ws, p, old.subscriptions) EXCEPT ![p] =
                           Append(@, [name |-> n, callbacks |-> Append(before, id),
                                      open |-> TRUE, pending |-> 0])]
        /\ subscribedEvents' = [subscribedEvents EXCEPT ![p][n] =
                                   [event EXCEPT !.subscriptions = Append(@, id)]]
        /\ calls' = [calls EXCEPT ![p] = Append(@, 0)]
        /\ now' = IF old.has THEN now ELSE t

\* subscribe up to ensureFileExists, lines 82-90 and 100-106.
UtilsSubscribe(p, n) ==
    /\ UNCHANGED <<daemonVars, failures, subscriptions, emptyReads, thrown, heard, initialized, initializations>>
    /\ dirs' = EnsureEventsDirExists(EnsureEventsDirExists(dirs, GetSharedEventDir).dirs, GetSharedEventDir).dirs
    /\ pc[p] = Idle
    /\ SubscribesBegun < MaxSubscribes
    /\ IF files[n].exists
       THEN /\ \E t \in ClockReadings(now) : UtilsWatchAndStore(watchers, p, n, t)
            /\ UNCHANGED pc
       ELSE /\ pc' = [pc EXCEPT ![p] = [at |-> "creating", name |-> n, text |-> <<>>, call |-> "subscribe"]]
            /\ UNCHANGED <<watchers, subscribedEvents, calls, now>>
    /\ UNCHANGED <<files, eventTimes, written, emitsBegun>>

\* fs.closeSync(fs.openSync(filePath, 'w')), line 85, and the rest of subscribe.
UtilsSubscribeCreate(p) ==
    /\ UNCHANGED <<daemonVars, failures, dirs, subscriptions, emptyReads, thrown, heard, initialized, initializations>>
    /\ pc[p].at = "creating"
    /\ LET n == pc[p].name
       IN  /\ files' = [files EXCEPT ![n] = [exists |-> TRUE, text |-> <<>>]]
           /\ \E t \in ClockReadings(now) : UtilsWatchAndStore(Notified(watchers, n), p, n, t)
    /\ pc' = [pc EXCEPT ![p] = Idle]
    /\ UNCHANGED <<eventTimes, written, emitsBegun>>

\* unsubscribe of the emitter: the watchers of the name are closed, the
\* Event and the entry of eventTimes are deleted.
UtilsUnsubscribe(p, n) ==
    /\ UNCHANGED <<daemonVars, failures, dirs, subscriptions, emptyReads, thrown, heard, initialized, initializations>>
    /\ pc[p] = Idle
    /\ watchers' = ClosedAll(watchers, p, subscribedEvents[p][n].subscriptions)
    /\ subscribedEvents' = [subscribedEvents EXCEPT ![p][n] = NoEvent]
    /\ eventTimes' = [eventTimes EXCEPT ![p][n] = Undefined]
    /\ UNCHANGED <<now, files, pc, calls, written, emitsBegun>>

\* The disposer createSubscription returns, lines 119-121, for the
\* subscription that made watcher i: it unsubscribes the name.
UtilsDispose(p, i) ==
    /\ i \in 1..Len(watchers[p])
    /\ UtilsUnsubscribe(p, watchers[p][i].name)

\* emit of the emitter up to the open of fs.writeFileSync, line 149: a
\* fresh Event takes its time from the clock and the file is emptied.
UtilsEmitBegin(p, n) ==
    /\ UNCHANGED <<daemonVars, failures, subscriptions, emptyReads, thrown, heard, initialized, initializations>>
    /\ dirs' = EnsureEventsDirExists(dirs, GetSharedEventDir).dirs
    /\ p \in Emitters
    /\ pc[p] = Idle
    /\ emitsBegun < MaxEmits
    /\ \E t \in ClockReadings(now) :
        /\ now' = t
        /\ pc' = [pc EXCEPT ![p] = [at |-> "writing", name |-> n, text |-> UtilsEventText(p, n, t), call |-> "emitEvent"]]
    /\ files' = [files EXCEPT ![n] = [exists |-> TRUE, text |-> <<>>]]
    /\ watchers' = Notified(watchers, n)
    /\ emitsBegun' = emitsBegun + 1
    /\ UNCHANGED <<subscribedEvents, eventTimes, calls, written>>

\* The write and the close of fs.writeFileSync, line 149.
UtilsEmitEnd(p) ==
    /\ UNCHANGED <<daemonVars, failures, dirs, subscriptions, emptyReads, thrown, heard, initialized, initializations>>
    /\ pc[p].at = "writing"
    /\ LET n == pc[p].name
       IN  /\ files' = [files EXCEPT ![n].text = pc[p].text]
           /\ watchers' = Notified(watchers, n)
           /\ written' = [written EXCEPT ![n] =
                             Append(@, FromISOString(JsonGet(pc[p].text, "eventTime")))]
    /\ pc' = [pc EXCEPT ![p] = Idle]
    /\ UNCHANGED <<now, subscribedEvents, eventTimes, calls, emitsBegun>>

\* The callback of fs.watch, lines 126-138: one native notification.  The
\* file is not read.
UtilsWatchCallback(p, i) ==
    LET w == watchers[p][i]
        event == subscribedEvents[p][w.name]
    IN  IF eventTimes[p][w.name] # event.eventTime
        THEN /\ calls' = [calls EXCEPT ![p] =
                             [c \in 1..Len(@) |-> IF \E j \in 1..Len(w.callbacks) : w.callbacks[j] = c
                                                  THEN @[c] + 1 ELSE @[c]]]
             /\ eventTimes' = [eventTimes EXCEPT ![p][w.name] = event.eventTime]
        ELSE UNCHANGED <<calls, eventTimes>>

UtilsFire(p, i) ==
    /\ UNCHANGED <<daemonVars, failures, dirs, subscriptions, emptyReads, thrown, initialized, initializations>>
    /\ pc[p] = Idle
    /\ i \in 1..Len(watchers[p])
    /\ watchers[p][i].open
    /\ watchers[p][i].pending > 0
    /\ UtilsWatchCallback(p, i)
    /\ heard' = Heard(p, watchers[p][i].name)
    /\ watchers' = [watchers EXCEPT ![p][i].pending = @ - 1]
    /\ UNCHANGED <<now, files, pc, subscribedEvents, written, emitsBegun>>

UtilsNext ==
    \E p \in Procs :
        \/ \E n \in SharedEvents : UtilsSubscribe(p, n) \/ UtilsUnsubscribe(p, n) \/ UtilsEmitBegin(p, n)
        \/ UtilsSubscribeCreate(p)
        \/ UtilsEmitEnd(p)
        \/ \E i \in 1..MaxSubscribes : UtilsDispose(p, i) \/ UtilsFire(p, i)

\* ------------------------------------------------- event layer: properties
\* The other processes have made no watcher and are not creating the file.
OnlySubscriber(p) == \A q \in Procs \ {p} : watchers[q] = <<>> /\ pc[q].at # "creating"

\* The watchers of p on n that are open.
LiveWatches(p, n) == { i \in 1..Len(watchers[p]) : watchers[p][i].open /\ watchers[p][i].name = n }

\* Each element of a sequence of clock readings is newer than those before it.
StrictlyIncreasing(ts) == \A i, j \in 1..Len(ts) : i < j => ts[i] < ts[j]

\* C4: with one subscribing process, however many native notifications the
\* writes of the emits cause, no callback has been invoked more often than
\* emits have begun: an emit invokes a callback at most once.
AtMostOncePerEmit ==
    \A p \in Procs :
        OnlySubscriber(p) => \A c \in 1..Len(calls[p]) : calls[p][c] <= emitsBegun

\* C5: A has emitted once and never subscribed, B has one subscription with
\* one callback, has delivered A's emission and has no notification left:
\* the callback has been invoked exactly once.
SingleEmitCountsOnce ==
    \A n \in Names :
        ( /\ emitsBegun = 1
          /\ Len(written[n]) = 1
          /\ OnlySubscriber("B")
          /\ pc["A"] = Idle
          /\ pc["B"] = Idle
          /\ Len(watchers["B"]) = 1
          /\ subscriptions["B"][n].has
          /\ watchers["B"][1].pending = 0
          /\ eventTimes["B"][n] = ToISOString(written[n][1]) )
        => calls["B"][1] = 1

\* C6: a subscription of two or more callbacks outlives every step of its
\* process: removing one callback leaves a live watch for the others.
SharedWatchSurvives ==
    [][\A p \in Procs, n \in Names :
         (subscriptions[p][n].has /\ Len(subscriptions[p][n].callbacks) >= 2)
         => (subscriptions'[p][n].has /\ LiveWatches(p, n)' # {})]_vars

\* C7: a subscriber in another process than the emitter, whose subscription
\* is older than the first emit, which has handled a notification after
\* every earlier write and whose callback has been invoked for every
\* emission but the last, all of distinct timestamps, is invoked by the
\* notification it handles after the last write has completed.
EveryEmissionDelivered ==
    [][\A p \in Procs \ Emitters, n \in Names :
         ( /\ subscribedEvents[p][n].has
           /\ Len(watchers[p]) = 1
           /\ watchers[p][1].open
           /\ watchers'[p][1].open
           /\ watchers'[p][1].pending = watchers[p][1].pending - 1
           /\ written[n] # <<>>
           /\ files[n].text # <<>>
           /\ FromISOString(subscribedEvents[p][n].eventTime) < written[n][1]
           /\ StrictlyIncreasing(written[n])
           /\ heard[p][n] = Len(written[n]) - 1
           /\ calls[p][1] = Len(written[n]) - 1 )
         => calls'[p][1] = Len(written[n])]_vars

\* C8: in every process every event name has at most one open watcher.
OneLiveWatch == \A p \in Procs, n \in Names : Cardinality(LiveWatches(p, n)) <= 1

\* C8 witness: a process has subscribed twice to a name and called a
\* disposer: its first watcher is closed, its second is open.
OneLiveWatchWitness ==
    \E p \in Procs, n \in Names :
        /\ Len(watchers[p]) = 2
        /\ LiveWatches(p, n) = {2}
        /\ Len(subscriptions[p][n].callbacks) = 2
        /\ thrown[p] # ""

\* C9: no watch callback has read an event file empty after an emit to it
\* had completed.
NoEmptyReadAfterEmit == emptyReads = {}

SameWatches(ws1, ws2) ==
    \A p \in Procs :
        /\ Len(ws1[p]) = Len(ws2[p])
        /\ \A i \in 1..Len(ws1[p]) : ws1[p][i] = [ws2[p][i] EXCEPT !.pending = ws1[p][i].pending]

\* C12: a step of an emit (it begins, or its write completes) invokes no
\* callback and changes neither the subscriptions, the watchers but for
\* their queued notifications, nor the delivered times; the count of a
\* callback grows only in a step that handles a queued notification of an
\* open watcher holding the callback.
EmitOnlyWrites ==
    [][/\ (emitsBegun' # emitsBegun \/ written' # written)
          => /\ UNCHANGED <<calls, subscriptions, eventTimes>>
             /\ SameWatches(watchers', watchers)
       /\ \A p \in Procs : \A c \in 1..Len(calls[p]) :
            calls'[p][c] # calls[p][c]
            => \E i \in 1..Len(watchers[p]) :
                  /\ watchers[p][i].open
                  /\ watchers[p][i].pending > 0
                  /\ watchers'[p][i].pending = watchers[p][i].pending - 1
                  /\ \E j \in 1..Len(watchers[p][i].callbacks) : watchers[p][i].callbacks[j] = c]_vars

\* C12 witness: a process that subscribes has emitted, its write is
\* complete and its callback has not been invoked: the notifications wait.
EmitOnlyWritesWitness ==
    \E p \in Emitters, n \in Names :
        /\ subscriptions[p][n].has
        /\ Len(watchers[p]) = 1
        /\ Len(written[n]) = 1
        /\ pc[p] = Idle
        /\ watchers[p][1].pending = MaxFires
        /\ calls[p][1] = 0

\* C13: when the last call of a process was the call of a disposer, the
\* process has no subscription, no open watcher and no delivered time for
\* the event name.
DisposerRemoves ==
    \A p \in Procs, n \in Names :
        thrown[p] = CloseError
        => /\ ~subscriptions[p][n].has
           /\ LiveWatches(p, n) = {}
           /\ eventTimes[p][n] = Undefined

\* The callbacks of the subscriptions process p has.
Subscribed(p) ==
    UNION { { subscriptions[p][n].callbacks[j] : j \in 1..Len(subscriptions[p][n].callbacks) } :
              n \in { m \in Names : subscriptions[p][m].has } }

\* C14: a process without subscription for a name has no open watcher and
\* no delivered time for it; the step that removes the subscription of a
\* name leaves the subscriptions, watchers and delivered times of the other
\* names as they are; and only callbacks of the subscriptions a process has
\* are invoked.
UnsubscribeRemoves ==
    /\ [](\A p \in Procs, n \in Names :
            ~subscriptions[p][n].has
            => LiveWatches(p, n) = {} /\ eventTimes[p][n] = Undefined)
    /\ [][\A p \in Procs :
            /\ \A n \in Names :
                 (subscriptions[p][n].has /\ ~subscriptions'[p][n].has)
                 => \A m \in Names \ {n} :
                       /\ subscriptions'[p][m] = subscriptions[p][m]
                       /\ eventTimes'[p][m] = eventTimes[p][m]
                       /\ LiveWatches(p, m)' = LiveWatches(p, m)
            /\ \A c \in 1..Len(calls[p]) :
                 calls'[p][c] # calls[p][c] => c \in Subscribed(p)]_vars

\* C14 witness: the one process that acts has unsubscribed from a name
\* after its callback was invoked for an emission, has since begun another
\* emit to the name, and still has its subscription to another name.
UnsubscribeRemovesWitness ==
    \E p \in LifecycleProcs, n \in Names, m \in Names :
        /\ n # m
        /\ Len(watchers[p]) = 2
        /\ watchers[p][1].name = n
        /\ ~subscriptions[p][n].has
        /\ subscriptions[p][m].has
        /\ LiveWatches(p, m) = {2}
        /\ pc[p].at = "writing"
        /\ pc[p].name = n
        /\ Len(written[n]) = 1
        /\ calls[p][1] = 1

\* C20: every failure of a directory creation, a file creation, a write or
\* a read of an event file is raised to the caller of the subscribe or emit
\* that made the call, as an error that names the path; none is raised inside
\* a watch notification.
FailuresReachCaller ==
    \A f \in failures : f.raised = "call" /\ f.named

\* C21: emitEvent of a name that is not declared and emitCustomEvent of a
\* declared name raise an error and write nothing: a write that is under way
\* was begun by emitEvent for a declared name or by emitCustomEvent for a
\* custom one, and the step that raises the error leaves every file and every
\* call as it was.
ProtectedNamesRefused ==
    /\ [](\A p \in Procs :
            pc[p].at = "writing"
                => /\ pc[p].call = "emitEvent" => pc[p].name \in Names
                   /\ pc[p].call = "emitCustomEvent" => pc[p].name \in CustomEvents)
    /\ [][\A p \in Procs :
            (thrown'[p] \in {UnableToDetermine, OperationNotAllowed} /\ thrown'[p] # thrown[p])
                => /\ files' = files
                   /\ written' = written
                   /\ pc' = pc
                   /\ watchers' = watchers]_vars

ProtectedNamesRefusedWitness ==
    \E p \in LifecycleProcs :
        /\ thrown[p] = UnableToDetermine
        /\ files["configChanged"].exists
        /\ ~files["myAppEvent"].exists

\* The step is watcher i of p handling one native notification.
NotificationHandled(p, i) ==
    /\ watchers[p][i].open
    /\ watchers'[p][i].open
    /\ watchers'[p][i].pending = watchers[p][i].pending - 1

\* A timestamp a callback stored, not the empty one of an empty file.
IsTime(t) == t # Undefined /\ t # ""

\* C22: a subscriber that handles a notification while the file of the name
\* holds a completed write and no write is under way has the timestamp of
\* the last write as its last delivered timestamp (last write wins), and the
\* timestamps it delivers never go back.
LastWriteWins ==
    [][\A p \in Procs, n \in Names :
         \A i \in 1..Len(watchers[p]) :
            ( /\ watchers[p][i].name = n
              /\ NotificationHandled(p, i)
              /\ written[n] # <<>>
              /\ files[n].text # <<>> )
            => /\ eventTimes'[p][n] = ToISOString(written[n][Len(written[n])])
               /\ IsTime(eventTimes[p][n])
                    => FromISOString(eventTimes'[p][n]) >= FromISOString(eventTimes[p][n])]_vars

\* The step is a subscribe of p to n that made watcher i.
SubscribedStep(p, n, i) ==
    /\ Len(watchers'[p]) = Len(watchers[p]) + 1
    /\ i = Len(watchers'[p])
    /\ watchers'[p][i].name = n

\* Successive subscribes to a name keep its callbacks: a subscribe appends
\* its callback to the list of the subscription, the new watcher holds that
\* list and is the one open watcher of the name, and a notification that
\* invokes callbacks invokes each callback of the watcher's list once.
CallbacksKept ==
    [][\A p \in Procs, n \in Names :
         /\ \A i \in 1..(Len(watchers[p]) + 1) :
                SubscribedStep(p, n, i)
                => /\ subscriptions'[p][n].callbacks = Append(subscriptions[p][n].callbacks, i)
                   /\ watchers'[p][i].callbacks = subscriptions'[p][n].callbacks
                   /\ LiveWatches(p, n)' = {i}
         /\ \A i \in 1..Len(watchers[p]) :
                (watchers[p][i].name = n /\ NotificationHandled(p, i) /\ calls'[p] # calls[p])
                => \A c \in 1..Len(calls[p]) :
                       calls'[p][c] = calls[p][c] +
                           (IF \E j \in 1..Len(watchers[p][i].callbacks) :
                                   watchers[p][i].callbacks[j] = c
                            THEN 1 ELSE 0)]_vars

\* C27: after k subscribes to a name, with no unsubscribe between them, the
\* open watcher holds the k callbacks in the order they were registered, and
\* an emission invokes each of them once: with one subscribing process, the
\* callback registered last in a list of two or more, which is invoked
\* together with the others, has not been invoked more often than emits have
\* begun.
AllCallbacksOncePerEmit ==
    /\ CallbacksKept
    /\ [](\A p \in Procs, n \in Names :
            (OnlySubscriber(p) /\ Len(subscriptions[p][n].callbacks) >= 2)
            => LET k == Len(subscriptions[p][n].callbacks)
               IN  calls[p][subscriptions[p][n].callbacks[k]] <= emitsBegun)

\* The file of an event by its scope, as a path: a user or a shared event has
\* the file of its name in the .events directory of its scope, a custom event
\* the file of its name in the directory of its application in the shared
\* .events directory.  The application of a process is named after it.
ScopePath(p, n) ==
    IF n \in UserEvents THEN <<GetUserEventDir, n>>
    ELSE IF n \in SharedEvents THEN <<GetSharedEventDir, n>>
    ELSE <<GetSharedEventDir, p, n>>

\* C28: an event is written to and watched in the file of its scope: the file
\* a write is under way on, join(loc, name), is the file of the scope of the
\* name, and so is the file an open watcher of the name watches.
ScopeDirectory ==
    \A p \in Procs :
        /\ pc[p].at = "writing"
              => <<JsonGet(pc[p].text, "loc"), pc[p].name>> = ScopePath(p, pc[p].name)
        /\ \A i \in 1..Len(watchers[p]) :
              watchers[p][i].open => EventPath(watchers[p][i].name) = ScopePath(p, watchers[p][i].name)

\* The same for the declared events, and for every event: a write and a
\* watcher of one name are on one file.
ScopeDirectoryDeclared ==
    \A p \in Procs :
        /\ (pc[p].at = "writing" /\ pc[p].name \in Names)
              => <<JsonGet(pc[p].text, "loc"), pc[p].name>> = ScopePath(p, pc[p].name)
        /\ \A i \in 1..Len(watchers[p]) :
              /\ watchers[p][i].name \in Names
                    => EventPath(watchers[p][i].name) = ScopePath(p, watchers[p][i].name)
              /\ \A q \in Procs :
                    (pc[q].at = "writing" /\ pc[q].name = watchers[p][i].name)
                        => <<JsonGet(pc[q].text, "loc"), pc[q].name>> = EventPath(watchers[p][i].name)

\* C29: in every state the processes reach, ensureEventsDirExists and
\* ensureEventFileExists, each run without interruption, are idempotent: a
\* first call succeeds and leaves the directory and the file in place, a
\* second call on the same path succeeds and changes nothing, a file that
\* exists keeps its contents, and a file that is absent is created empty.
EnsureIdempotent ==
    \A n \in EventNames :
        LET d == GetEventDir(n)
            dir1 == EnsureEventsDirExists(dirs, d)
            dir2 == EnsureEventsDirExists(dir1.dirs, d)
            file1 == EnsureEventFileExists(dir1.dirs, files, n)
            file2 == EnsureEventFileExists(dir1.dirs, file1.files, n)
        IN  /\ dir1.error = "" /\ d \in dir1.dirs
            /\ dir2.error = "" /\ dir2.dirs = dir1.dirs
            /\ file1.error = "" /\ file1.files[n].exists
            /\ file2.error = "" /\ file2.files = file1.files
            /\ files[n].exists => file1.files = files
            /\ ~files[n].exists
                  => file1.files = [files EXCEPT ![n] = [exists |-> TRUE, text |-> <<>>]]

\* Both functions have run on the path of an event whose file holds a
\* written event, and the file of another event is absent.
EnsureIdempotentWitness ==
    /\ \E n \in Names :
          /\ GetEventDir(n) \in dirs
          /\ files[n].exists /\ files[n].text # <<>>
          /\ \E p \in Procs : subscriptions[p][n].has
    /\ \E n \in Names : ~files[n].exists

\* C30: no call of ensureEventsDirExists ends with an error, though two
\* processes call it for a directory that is absent: each call that has
\* returned left the directory in place and raised nothing.
ConcurrentEnsureDirSucceeds ==
    \A p \in Procs :
        /\ thrown[p] # UnableToCreateDir
        /\ pc[p].at \in {"ensured", "creating", "writing"} => GetEventDir(pc[p].name) \in dirs

\* Two processes have found the same directory absent.
ConcurrentEnsureDir ==
    /\ pc["A"].at = "mkdir" /\ pc["B"].at = "mkdir"
    /\ GetEventDir(pc["A"].name) = GetEventDir(pc["B"].name)
    /\ GetEventDir(pc["A"].name) \notin dirs

\* The step of process p that ends its ensureEventFileExists with the open
\* of line 84.
CreateStep(p) == pc[p].at = "creating" /\ pc'[p] = Idle

\* C31: the create step of a subscribe never erases an emitted record: when
\* the file of its event holds an emission, the step leaves the contents of
\* the file as they are.
SubscribeKeepsEmission ==
    [][\A p \in Procs :
          (CreateStep(p) /\ files[pc[p].name].text # <<>>)
              => files'[pc[p].name] = files[pc[p].name]]_vars

\* A subscribe has found no file, and the file holds an emission by now.
SubscribeOverEmission ==
    \E p \in Procs : pc[p].at = "creating" /\ files[pc[p].name].text # <<>>

\* The step invokes a callback of process p.
Invokes(p) == calls'[p] # calls[p]

\* C32: a delivery invokes every callback registered for the event, once,
\* and records the emission it delivered, so that no callback is invoked for
\* it again, also when a callback of the list throws: a notification that
\* invokes a callback invokes each callback of the watcher's list once and
\* stores the timestamp it read as the last delivered one.
DeliveryReachesAll ==
    [][\A p \in Procs :
         \A i \in 1..Len(watchers[p]) :
            (NotificationHandled(p, i) /\ Invokes(p))
            => LET w == watchers[p][i]
               IN  /\ \A j \in 1..Len(w.callbacks) :
                          calls'[p][w.callbacks[j]] = calls[p][w.callbacks[j]] + 1
                   /\ eventTimes'[p][w.name] = EventTimeOf(files[w.name].text)]_vars

\* A notification is due for a watcher of two callbacks while its file
\* holds an emission that has not been delivered.
DeliveryToTwo ==
    \E p \in Procs :
        \E i \in 1..Len(watchers[p]) :
            /\ pc[p] = Idle
            /\ watchers[p][i].open /\ watchers[p][i].pending > 0
            /\ Len(watchers[p][i].callbacks) = 2
            /\ files[watchers[p][i].name].text # <<>>
            /\ eventTimes[p][watchers[p][i].name] # EventTimeOf(files[watchers[p][i].name].text)

\* No emit of the event n has begun so far.
NeverEmitted(n) ==
    /\ written[n] = <<>>
    /\ \A q \in Procs : ~(pc[q].at = "writing" /\ pc[q].name = n)

\* C33: callbacks are invoked only for emissions: as long as no emit of an
\* event has begun (its file is absent or still empty), no callback
\* registered for it has been invoked, whatever native notifications its
\* watchers have handled.  Callback c of a process is the one its c-th
\* subscribe registered.
NoCallbackBeforeEmit ==
    \A n \in Names :
        NeverEmitted(n)
        => \A p \in Procs :
              \A c \in 1..Len(calls[p]) : watchers[p][c].name = n => calls[p][c] = 0

\* A notification is due for a subscription whose event has never been
\* emitted.
NotifiedBeforeEmit ==
    \E n \in Names :
        /\ NeverEmitted(n)
        /\ \E p \in Procs :
              \E i \in 1..Len(watchers[p]) :
                  /\ watchers[p][i].name = n
                  /\ watchers[p][i].open /\ watchers[p][i].pending > 0

\* ------------------------------------------------------- daemon: the steps
\* The server accepts a connection (while it runs and listens) and the
\* client sends its request.
Connect(s) ==
    /\ UNCHANGED eventVars
    /\ alive
    /\ listening
    /\ conn[s] = "idle"
    /\ \E r \in RequestsOf(s) :
        /\ req' = [req EXCEPT ![s] = r]
        /\ wire' = [wire EXCEPT ![s] = Encode(r)]
    /\ conn' = [conn EXCEPT ![s] = "open"]
    /\ UNCHANGED <<alive, listening, stdin, pendingStdinLength, stdinListener, jsonData, effects,
                   dispatched, firstRead>>

\* The socket delivers the next n bytes as one chunk to a running process;
\* when the process exits, its listener and its open connections go with it.
Data(s) ==
    /\ UNCHANGED eventVars
    /\ alive
    /\ conn[s] \in {"open", "ended"}
    /\ \E n \in 1..Len(wire[s]) :
        LET w == OnData(World(s), SubSeq(wire[s], 1, n))
        IN  /\ wire' = [wire EXCEPT ![s] = SubSeq(@, n + 1, Len(@))]
            /\ firstRead' = [firstRead EXCEPT ![s] = IF @ = 0 THEN n ELSE @]
            /\ stdin' = w.stdin
            /\ alive' \in AliveAfter(World(s), w)
            /\ listening' = (w.listening /\ alive')
            /\ conn' = [t \in Sessions |->
                           LET c == IF t = s THEN w.conn ELSE conn[t]
                           IN  IF ~alive' /\ c = "open" THEN "dead" ELSE c]
            /\ pendingStdinLength' = [pendingStdinLength EXCEPT ![s] = w.pending]
            /\ stdinListener' = [stdinListener EXCEPT ![s] = w.listener]
            /\ jsonData' = [jsonData EXCEPT ![s] = w.json]
            /\ effects' = [effects EXCEPT ![s] = w.effects]
            /\ dispatched' = [dispatched EXCEPT ![s] = w.dispatched]
    /\ UNCHANGED req

DaemonNext == \E s \in Sessions : Connect(s) \/ Data(s)

\* ------------------------------------------------------ the specifications
Init == DaemonInit /\ EventInit

SpecDaemon == Init /\ [][DaemonNext]_vars

SpecEmitter == Init /\ [][EmitterNext]_vars

SpecLifecycle == Init /\ [][LifecycleNext]_vars

SpecUtils == Init /\ [][UtilsNext]_vars

SpecFaults == Init /\ [][FaultsNext]_vars

SpecScopes == Init /\ [][ScopesNext]_vars

SpecEnsure == Init /\ [][EnsureNext]_vars

SpecThrowing == Init /\ [][ThrowingNext]_vars

====
